---- MODULE Spec2Model ----
(***************************************************************************)
(* ESP8266 OTA update server (src/server.js).                              *)
(*                                                                         *)
(* State: the two files under firmware/ (version.json and firmware.bin),   *)
(* the upload requests being written to disk by multer's disk storage,     *)
(* the downloads being streamed from disk, and the last response of the    *)
(* synchronous handlers.  Strings are sequences of one-character strings;  *)
(* a file is a sequence of I/O units.                                      *)
(***************************************************************************)
EXTENDS Integers, Sequences, FiniteSets, TLC

VARIABLES versionFile, blob, recData, up, dl, resp, cmpIn, cmpOut

vars == <<versionFile, blob, recData, up, dl, resp, cmpIn, cmpOut>>

(***************************************************************************)
(* Bounds of the model.                                                    *)
(***************************************************************************)
\* longest uploaded payload, in I/O units
MaxLen == 2
\* POST /update requests of a run
NumUploads == 2
\* GET /firmware requests of a run
NumDownloads == 1
\* most segments of a generated version string
MaxSegs == 3

Uploads == 1..NumUploads
Downloads == 1..NumDownloads

(***************************************************************************)
(* JavaScript values.                                                      *)
(***************************************************************************)
\* the value undefined (a missing query parameter, header, field or index)
Absent == <<"undefined">>
\* the empty string
Empty == <<>>

Max(a, b) == IF a > b THEN a ELSE b

\* !v for a value that is undefined or a string
Falsy(v) == v = Absent \/ v = Empty

\* a || b
OrElse(a, b) == IF Falsy(a) THEN b ELSE a

Digits == {"0", "1", "2", "3", "4", "5", "6", "7", "8", "9"}

DigitVal(c) ==
    CASE c = "0" -> 0 [] c = "1" -> 1 [] c = "2" -> 2 [] c = "3" -> 3
      [] c = "4" -> 4 [] c = "5" -> 5 [] c = "6" -> 6 [] c = "7" -> 7
      [] c = "8" -> 8 [] c = "9" -> 9

RECURSIVE SplitFrom(_, _, _)
SplitFrom(s, i, cur) ==
    IF i > Len(s) THEN <<cur>>
    ELSE IF s[i] = "." THEN <<cur>> \o SplitFrom(s, i + 1, <<>>)
    ELSE SplitFrom(s, i + 1, Append(cur, s[i]))

\* s.split('.')
Split(s) == SplitFrom(s, 1, <<>>)

(***************************************************************************)
(* Numbers.  A non-negative integer below 10^16 is the pair <<hi, lo>> of  *)
(* its two halves of eight decimal digits, so that the integers around     *)
(* 2^53 = 9007199254740992, where a JavaScript number stops being exact,   *)
(* can be written.  The numerals of the model have at most 16 digits.      *)
(***************************************************************************)
TenTo8 == 10000 * 10000

RECURSIVE DecimalValue(_)
DecimalValue(seg) ==
    IF seg = <<>> THEN 0
    ELSE 10 * DecimalValue(SubSeq(seg, 1, Len(seg) - 1)) + DigitVal(seg[Len(seg)])

\* the integer a string of at most 16 digits writes
IntOf(seg) ==
    LET n == Len(seg) IN
    IF n <= 8 THEN <<0, DecimalValue(seg)>>
    ELSE <<DecimalValue(SubSeq(seg, 1, n - 8)), DecimalValue(SubSeq(seg, n - 7, n))>>

Greater(a, b) == a[1] > b[1] \/ (a[1] = b[1] /\ a[2] > b[2])

Less(a, b) == Greater(b, a)

Zero == <<0, 0>>

\* the result of Number() on a string that is no numeral
NaN == <<-1, -1>>

TwoTo53 == <<90071992, 54740992>>

\* the double nearest to an integer below 10^16 (which is below 2^54): up
\* to 2^53 the integer itself, above it the nearest even integer, and of
\* the two neighbours of an odd integer the multiple of 4
ToDouble(n) ==
    IF ~Greater(n, TwoTo53) \/ n[2] % 2 = 0 THEN n
    ELSE IF n[2] % 4 = 1 THEN <<n[1], n[2] - 1>>
    ELSE IF n[2] + 1 = TenTo8 THEN <<n[1] + 1, 0>>
    ELSE <<n[1], n[2] + 1>>

\* Number(seg): the empty string is 0, a digit string the double nearest to
\* its value, the rest NaN
Number(seg) ==
    IF seg = <<>> THEN Zero
    ELSE IF \A i \in 1..Len(seg) : seg[i] \in Digits THEN ToDouble(IntOf(seg))
    ELSE NaN

\* NaN is not replaced by 0
PartOrZeroKeepNaN(parts, i) ==
    IF i <= Len(parts) THEN parts[i] ELSE Zero

\* parts[i] || 0, with i counted from 1: a missing index, NaN and 0 all give 0
PartOrZero(parts, i) ==
    IF i <= Len(parts) /\ parts[i] # NaN THEN parts[i] ELSE Zero

\* v.split('.').map(Number)
Parts(v) == LET segs == Split(v) IN [i \in 1..Len(segs) |-> Number(segs[i])]

\* the loop runs to the first sequence's length only
LoopBoundFirst(parts1, parts2) == Len(parts1)

\* Math.max(parts1.length, parts2.length)
LoopBound(parts1, parts2) == Max(Len(parts1), Len(parts2))

RECURSIVE CompareLoop(_, _, _)
CompareLoop(parts1, parts2, i) ==
    IF i > LoopBound(parts1, parts2) THEN 0
    ELSE LET num1 == PartOrZero(parts1, i)
             num2 == PartOrZero(parts2, i)
         IN  IF Greater(num1, num2) THEN 1
             ELSE IF Less(num1, num2) THEN -1
             ELSE CompareLoop(parts1, parts2, i + 1)

\* only the first argument is checked before the comparison
compareVersionsFirstOnly(v1, v2) ==
    IF Falsy(v1) THEN 0
    ELSE CompareLoop(Parts(v1), Parts(v2), 1)

compareVersions(v1, v2) ==
    IF Falsy(v1) \/ Falsy(v2) THEN 0
    ELSE CompareLoop(Parts(v1), Parts(v2), 1)

\* compareVersions(serverVersion, deviceVersion) > 0
UpdateAvailable(serverVersion, deviceVersion) ==
    compareVersions(serverVersion, deviceVersion) > 0

(***************************************************************************)
(* The two files.                                                          *)
(***************************************************************************)
V100 == <<"1", ".", "0", ".", "0">>
V101 == <<"1", ".", "0", ".", "1">>
V20 == <<"2", ".", "0">>

\* new Date().toISOString()
Now == "now"

\* version.json: no file, a file that is not JSON, or a record
Missing == [missing |-> TRUE]
Torn == [torn |-> TRUE]
BootRecord == [version |-> V100]
\* the record is written without the size of the upload
UploadRecordNoSize(v, n) == [version |-> v, updatedAt |-> Now]

UploadRecord(v, n) == [version |-> v, updatedAt |-> Now, size |-> n]

\* data.f for a parsed record: undefined when the key is not there
Field(rec, f) == IF f \in DOMAIN rec THEN rec[f] ELSE Absent

\* a file that is there is taken as a record, whatever it holds
ReadableAlways(vf) == vf # Missing

\* JSON.parse(fs.readFileSync(versionFile)) succeeds
Readable(vf) == vf # Missing /\ vf # Torn

\* the start of the process: version.json is written only when it is not there
\* the start of the process writes the first record whatever is there
BootstrapAlways(vf) == BootRecord

Bootstrap(vf) == IF vf = Missing THEN BootRecord ELSE vf

\* firmware.bin: absent, or a sequence of units (0 is a hole left by a
\* write past the end of the file)
NoBlob == [exists |-> FALSE, bytes |-> <<>>]
File(bytes) == [exists |-> TRUE, bytes |-> bytes]

\* the file after one unit b is written at offset off (counted from 0)
WriteAt(bytes, off, b) ==
    [i \in 1..Max(Len(bytes), off + 1) |->
        IF i = off + 1 THEN b
        ELSE IF i <= Len(bytes) THEN bytes[i]
        ELSE 0]

\* the digest of a content: equal digests only for equal contents
MD5(bytes) == <<"md5", bytes>>

(***************************************************************************)
(* Requests.                                                               *)
(***************************************************************************)
IdleUpload ==
    [pc |-> "idle", hasFile |-> FALSE, len |-> 0, version |-> Absent,
     off |-> 0, status |-> "none"]

\* snap is the content the handler saw (the Content-Length and x-MD5 headers
\* are its length and digest), body the units sent so far
IdleDownload ==
    [pc |-> "idle", status |-> "none", snap |-> <<>>, pos |-> 0, body |-> <<>>]

ContentLength(d) == Len(dl[d].snap)

XMD5(d) == MD5(dl[d].snap)

NoResp == [kind |-> "none"]

\* the version fields POST /update is tried with: none, the empty string,
\* two versions and a string that is no version
UploadVersions == {Absent, Empty, V101, V20, <<"a">>}

\* up and dl hold the requests of the run in their order of arrival: a
\* request that has not arrived is "idle", one lost in a crash is "lost"
Arrives(req, r) ==
    /\ req[r].pc = "idle"
    /\ IF r = 1 THEN TRUE ELSE req[r - 1].pc # "idle"

\* a request as a crash leaves it
Lost(r) == IF r.pc \in {"idle", "done"} THEN r ELSE [r EXCEPT !.pc = "lost"]

\* the bytes upload u sends: every unit carries the number of the request
Payload(u) == [i \in 1..up[u].len |-> u]

\* the uploads that have arrived with a file
WithFile == {u \in Uploads : up[u].pc # "idle" /\ up[u].hasFile}

Init ==
    /\ versionFile = Bootstrap(Missing)
    /\ blob = NoBlob
    /\ recData = <<>>
    /\ up = [u \in Uploads |-> IdleUpload]
    /\ dl = [d \in Downloads |-> IdleDownload]
    /\ resp = NoResp
    /\ cmpIn = <<Empty, Empty>>
    /\ cmpOut = <<>>

\* POST /update arrives; multer's disk storage opens firmware/firmware.bin
\* for writing, which truncates it, when the request carries the file
UploadStart(u, hasFile, len, version) ==
    /\ Arrives(up, u)
    /\ up' = [up EXCEPT ![u] =
                [pc |-> IF hasFile THEN "writing" ELSE "parsed",
                 hasFile |-> hasFile, len |-> IF hasFile THEN len ELSE 0,
                 version |-> version, off |-> 0, status |-> "none"]]
    /\ blob' = IF hasFile THEN File(<<>>) ELSE blob
    /\ UNCHANGED <<versionFile, recData, dl, resp, cmpIn, cmpOut>>

\* the write waits while a download has firmware.bin open
UploadWriteLocked(u) ==
    /\ \A d \in DOMAIN dl : dl[d].pc \notin {"streaming", "stalled"}
    /\ up[u].pc = "writing"
    /\ up[u].off < up[u].len
    /\ blob' = File(WriteAt(blob.bytes, up[u].off, u))
    /\ up' = [up EXCEPT ![u].off = @ + 1]
    /\ UNCHANGED <<versionFile, recData, dl, resp, cmpIn, cmpOut>>

\* the write stream of upload u writes its next unit at its own offset
UploadWrite(u) ==
    /\ up[u].pc = "writing"
    /\ up[u].off < up[u].len
    /\ blob' = File(WriteAt(blob.bytes, up[u].off, u))
    /\ up' = [up EXCEPT ![u].off = @ + 1]
    /\ UNCHANGED <<versionFile, recData, dl, resp, cmpIn, cmpOut>>

\* the handler also rejects a version that is not made of digits and dots
UpdateStatusValidated(u, writeOk) ==
    IF ~up[u].hasFile THEN "MissingFile"
    ELSE IF Falsy(up[u].version) THEN "MissingVersion"
    ELSE IF \E i \in 1..Len(up[u].version) :
                up[u].version[i] \notin Digits \cup {"."} THEN "MissingVersion"
    ELSE IF writeOk THEN "ok"
    ELSE "WriteFailed"

\* the outcome of the handler of POST /update
UpdateStatus(u, writeOk) ==
    IF ~up[u].hasFile THEN "MissingFile"
    ELSE IF Falsy(up[u].version) THEN "MissingVersion"
    ELSE IF writeOk THEN "ok"
    ELSE "WriteFailed"

\* the write stream has finished (req.file.size is its bytesWritten) and the
\* handler of POST /update runs; fs.writeFileSync may fail before or after
\* it has truncated version.json
UploadHandler(u, writeOk, truncated) ==
    /\ \/ up[u].pc = "parsed"
       \/ up[u].pc = "writing" /\ up[u].off = up[u].len
    /\ LET status == UpdateStatus(u, writeOk) IN
       /\ up' = [up EXCEPT ![u].pc = "done", ![u].status = status]
       /\ versionFile' =
            IF status = "ok" THEN UploadRecord(up[u].version, up[u].off)
            ELSE IF status = "WriteFailed" /\ truncated THEN Torn
            ELSE versionFile
       /\ recData' = IF status = "ok" THEN Payload(u) ELSE recData
    /\ UNCHANGED <<blob, dl, resp, cmpIn, cmpOut>>

\* the handler also answers 404 when firmware.bin is there but empty
DownloadStartNonEmpty(d) ==
    /\ Arrives(dl, d)
    /\ dl' = [dl EXCEPT ![d] =
                IF blob.bytes = <<>>
                THEN [IdleDownload EXCEPT !.pc = "done", !.status = "NotFound"]
                ELSE [pc |-> "streaming", status |-> "ok",
                      snap |-> blob.bytes, pos |-> 0, body |-> <<>>]]
    /\ UNCHANGED <<versionFile, blob, recData, up, resp, cmpIn, cmpOut>>

\* GET /firmware: the handler checks the file, takes its size and digest and
\* creates the read stream
DownloadStart(d) ==
    /\ Arrives(dl, d)
    /\ dl' = [dl EXCEPT ![d] =
                IF ~blob.exists
                THEN [IdleDownload EXCEPT !.pc = "done", !.status = "NotFound"]
                ELSE [pc |-> "streaming", status |-> "ok",
                      snap |-> blob.bytes, pos |-> 0, body |-> <<>>]]
    /\ UNCHANGED <<versionFile, blob, recData, up, resp, cmpIn, cmpOut>>

\* the read stream reads its next unit at its own offset and pipes it to the
\* response; a read at or past the end of the file ends the response
DownloadRead(d) ==
    /\ dl[d].pc = "streaming"
    /\ dl' = [dl EXCEPT ![d] =
                IF dl[d].pos < Len(blob.bytes)
                THEN [@ EXCEPT !.body = Append(@, blob.bytes[dl[d].pos + 1]),
                               !.pos = @ + 1]
                ELSE [@ EXCEPT !.pc = "done"]]
    /\ UNCHANGED <<versionFile, blob, recData, up, resp, cmpIn, cmpOut>>

\* the process dies and is started again: the requests are gone, the files
\* stay as they are
CrashRestart ==
    /\ \/ \E u \in Uploads : up[u].pc \in {"parsed", "writing"}
       \/ \E d \in Downloads : dl[d].pc = "streaming"
    /\ up' = [u \in Uploads |-> Lost(up[u])]
    /\ dl' = [d \in Downloads |-> Lost(dl[d])]
    /\ versionFile' = Bootstrap(versionFile)
    /\ resp' = NoResp
    /\ UNCHANGED <<blob, recData, cmpIn, cmpOut>>

Next ==
    \/ \E u \in Uploads, hasFile \in BOOLEAN, len \in 1..MaxLen,
          version \in UploadVersions : UploadStart(u, hasFile, len, version)
    \/ \E u \in Uploads : UploadWrite(u)
    \/ \E u \in Uploads, writeOk \in BOOLEAN, truncated \in BOOLEAN :
          UploadHandler(u, writeOk, truncated)
    \/ \E d \in Downloads : DownloadStart(d)
    \/ \E d \in Downloads : DownloadRead(d)
    \/ CrashRestart

Spec == Init /\ [][Next]_vars

(***************************************************************************)
(* The synchronous read handlers, started on any version.json an earlier   *)
(* run can have left.                                                      *)
(***************************************************************************)
\* the segments the generated version strings are made of
Numeral53 ==
    <<"9", "0", "0", "7", "1", "9", "9", "2", "5", "4", "7", "4", "0", "9", "9", "2">>
Numeral53Plus1 ==
    <<"9", "0", "0", "7", "1", "9", "9", "2", "5", "4", "7", "4", "0", "9", "9", "3">>

SegKinds == {<<"0">>, <<"2">>, <<"1", "0">>, <<"a">>}

\* version strings with a segment at the edge of the exact doubles
WideVersions ==
    UNION {{x, <<"2", ".">> \o x} : x \in {Numeral53, Numeral53Plus1}}

RECURSIVE Join(_)
Join(segs) ==
    IF Len(segs) = 1 THEN segs[1]
    ELSE segs[1] \o <<".">> \o Join(Tail(segs))

\* the non-empty version strings: those of at most MaxSegs segments of
\* SegKinds, and the wide ones
VersionStrings ==
    UNION {{Join(segs) : segs \in [1..n -> SegKinds]} : n \in 1..MaxSegs}
        \cup WideVersions

\* what a caller can send, or leave out, as a version
GivenVersions == VersionStrings \cup {Empty, Absent}

\* the x-esp8266-version headers GET /check is tried with
HeaderVersions == {Absent, Empty, V100}

\* the contents of version.json the service can be started on
StoredRecords ==
    {BootRecord, Torn, [updatedAt |-> Now], [version |-> Empty]}
        \cup {UploadRecord(v, 1) : v \in VersionStrings}

\* GET /version puts the first record back when the file does not parse
GetVersionRepairs ==
    /\ resp = NoResp
    /\ versionFile' = IF Readable(versionFile) THEN versionFile ELSE BootRecord
    /\ resp' = [kind |-> "version", status |-> 200, data |-> versionFile']
    /\ UNCHANGED <<blob, recData, up, dl, cmpIn, cmpOut>>

\* GET /version; the handlers run one at a time, each to its response
GetVersion ==
    /\ resp = NoResp
    /\ resp' = IF Readable(versionFile)
               THEN [kind |-> "version", status |-> 200, data |-> versionFile]
               ELSE [kind |-> "version", status |-> 500]
    /\ UNCHANGED <<versionFile, blob, recData, up, dl, cmpIn, cmpOut>>

\* GET /check puts the first record back when the file does not parse
CheckRepairs(query, header) ==
    /\ resp = NoResp
    /\ versionFile' = IF Readable(versionFile) THEN versionFile ELSE BootRecord
    /\ resp' = [kind |-> "check", status |-> 200,
                currentVersion |-> OrElse(query, header),
                latestVersion |-> Field(versionFile', "version"),
                updateAvailable |->
                    UpdateAvailable(Field(versionFile', "version"),
                                    OrElse(query, header))]
    /\ UNCHANGED <<blob, recData, up, dl, cmpIn, cmpOut>>

\* GET /check with the query parameter and the header given
Check(query, header) ==
    /\ resp = NoResp
    /\ LET deviceVersion == OrElse(query, header) IN
       resp' = IF Readable(versionFile)
               THEN LET serverVersion == Field(versionFile, "version") IN
                    [kind |-> "check", status |-> 200,
                     currentVersion |-> deviceVersion,
                     latestVersion |-> serverVersion,
                     updateAvailable |->
                        UpdateAvailable(serverVersion, deviceVersion)]
               ELSE [kind |-> "check", status |-> 500]
    /\ UNCHANGED <<versionFile, blob, recData, up, dl, cmpIn, cmpOut>>

\* the response has been sent
Respond ==
    /\ resp # NoResp
    /\ resp' = NoResp
    /\ UNCHANGED <<versionFile, blob, recData, up, dl, cmpIn, cmpOut>>

InitCheck ==
    /\ versionFile \in StoredRecords
    /\ blob = NoBlob
    /\ recData = <<>>
    /\ up = [u \in Uploads |-> IdleUpload]
    /\ dl = [d \in Downloads |-> IdleDownload]
    /\ resp = NoResp
    /\ cmpIn = <<Empty, Empty>>
    /\ cmpOut = <<>>

NextCheck ==
    \/ GetVersion
    \/ \E query \in GivenVersions, header \in HeaderVersions :
          Check(query, header)
    \/ Respond

SpecCheck == InitCheck /\ [][NextCheck]_vars

(***************************************************************************)
(* compareVersions on its own: both orders of one pair of arguments.       *)
(***************************************************************************)
DoCompare ==
    /\ cmpOut = <<>>
    /\ cmpOut' = <<compareVersions(cmpIn[1], cmpIn[2]),
                   compareVersions(cmpIn[2], cmpIn[1])>>
    /\ UNCHANGED <<versionFile, blob, recData, up, dl, resp, cmpIn>>

InitCmp ==
    /\ versionFile = Bootstrap(Missing)
    /\ blob = NoBlob
    /\ recData = <<>>
    /\ up = [u \in Uploads |-> IdleUpload]
    /\ dl = [d \in Downloads |-> IdleDownload]
    /\ resp = NoResp
    /\ cmpIn \in GivenVersions \X GivenVersions
    /\ cmpOut = <<>>

NextCmp == DoCompare

SpecCmp == InitCmp /\ [][NextCmp]_vars

(***************************************************************************)
(* The whole service: the uploads and downloads of Spec together with the  *)
(* synchronous read handlers.  A synchronous handler sends its response    *)
(* before any other callback of the event loop runs.                       *)
(***************************************************************************)
\* GET /: the static description of the endpoints
GetRoot ==
    /\ resp = NoResp
    /\ resp' = [kind |-> "root", status |-> 200]
    /\ UNCHANGED <<versionFile, blob, recData, up, dl, cmpIn, cmpOut>>

\* the device versions GET /check is tried with beside the uploads
DeviceVersions == {Absent, V101}

\* no response of a synchronous handler is being sent
Quiet == resp = NoResp

NextServe ==
    \/ \E u \in Uploads, hasFile \in BOOLEAN, len \in 1..MaxLen,
          version \in UploadVersions :
            Quiet /\ UploadStart(u, hasFile, len, version)
    \/ \E u \in Uploads : Quiet /\ UploadWrite(u)
    \/ \E u \in Uploads, writeOk \in BOOLEAN, truncated \in BOOLEAN :
          Quiet /\ UploadHandler(u, writeOk, truncated)
    \/ \E d \in Downloads : Quiet /\ DownloadStart(d)
    \/ \E d \in Downloads : Quiet /\ DownloadRead(d)
    \/ Quiet /\ CrashRestart
    \/ GetRoot
    \/ GetVersion
    \/ \E query \in DeviceVersions : Check(query, Absent)
    \/ Respond

SpecServe == Init /\ [][NextServe]_vars

(***************************************************************************)
(* A slow client: the first download of the run stops taking data, pipe()  *)
(* pauses its read stream and the response stays open for ever.  The       *)
(* other callbacks of the event loop run whenever they are ready.          *)
(***************************************************************************)
\* the download of the slow client
SlowDownload == 1

\* the slow download and NumDownloads others
FairDownloads == 1..(NumDownloads + 1)

\* the version fields the uploads beside the slow download carry
FairVersions == {Absent, V20}

\* the client of the slow download stops reading: the response buffer is
\* full and pipe() does not read on
SlowClientStalls ==
    /\ dl[SlowDownload].pc = "streaming"
    /\ dl' = [dl EXCEPT ![SlowDownload].pc = "stalled"]
    /\ UNCHANGED <<versionFile, blob, recData, up, resp, cmpIn, cmpOut>>

InitFair ==
    /\ versionFile = Bootstrap(Missing)
    /\ blob = NoBlob
    /\ recData = <<>>
    /\ up = [u \in Uploads |-> IdleUpload]
    /\ dl = [d \in FairDownloads |-> IdleDownload]
    /\ resp = NoResp
    /\ cmpIn = <<Empty, Empty>>
    /\ cmpOut = <<>>

NextFair ==
    \/ \E u \in Uploads, hasFile \in BOOLEAN, len \in 1..MaxLen,
          version \in FairVersions : UploadStart(u, hasFile, len, version)
    \/ \E u \in Uploads : UploadWrite(u)
    \/ \E u \in Uploads : UploadHandler(u, TRUE, FALSE)
    \/ \E d \in FairDownloads : DownloadStart(d)
    \/ \E d \in FairDownloads : DownloadRead(d)
    \/ SlowClientStalls

\* a callback that is ready to run is run
Fairness ==
    /\ \A u \in Uploads : WF_vars(UploadWrite(u))
    /\ \A u \in Uploads : WF_vars(UploadHandler(u, TRUE, FALSE))
    /\ \A d \in FairDownloads : WF_vars(DownloadRead(d))

SpecFair == InitFair /\ [][NextFair]_vars /\ Fairness

(***************************************************************************)
(* Properties.                                                             *)
(***************************************************************************)
\* every upload request of the run has been answered or has not arrived
NoUploadInProgress == \A u \in Uploads : up[u].pc \in {"idle", "done"}

\* C1: a GET /firmware that has been answered with a body has sent either
\* the whole content its handler saw or the whole payload of an upload of
\* the run, never a truncated body or a mixture.
C1_DownloadWhole ==
    \A d \in Downloads :
        (dl[d].pc = "done" /\ dl[d].status = "ok") =>
            \/ dl[d].body = dl[d].snap
            \/ \E u \in WithFile : dl[d].body = Payload(u)

\* C2: once two or more uploads of the run have succeeded and no upload is
\* in progress, the blob is the payload of one of them.
C2_UploadsSerialized ==
    LET done == {u \in Uploads : up[u].pc = "done" /\ up[u].status = "ok"}
    IN  (NoUploadInProgress /\ done = WithFile /\ Cardinality(done) >= 2) =>
            \E u \in done : blob.bytes = Payload(u)

\* C3: when no upload is in progress and the version record carries a size
\* (an upload has succeeded), the blob's length is that size.
C3_SizeMatchesBlob ==
    (NoUploadInProgress /\ "size" \in DOMAIN versionFile) =>
        Len(blob.bytes) = versionFile.size

\* C4: a POST /update that failed and is the only upload request of the run
\* has left the blob as it was before the request: absent.
C4_FailedUploadKeepsBlob ==
    \A u \in Uploads :
        (/\ up[u].pc = "done"
         /\ up[u].status # "ok"
         /\ \A v \in Uploads \ {u} : up[v].pc = "idle") => blob = NoBlob

\* C5: in every state, also after a crash, a version record written by an
\* upload has that upload's bytes fully in place in the blob.
C5_RecordBackedByBlob ==
    "size" \in DOMAIN versionFile => blob = File(recData)

\* a dot-separated sequence of non-empty digit strings
WellFormed(v) ==
    /\ ~Falsy(v)
    /\ \A i \in 1..Len(v) : v[i] \in Digits \cup {"."}
    /\ \A i \in 1..Len(Split(v)) : Split(v)[i] # <<>>

\* the reference order of two well-formed versions: both zero-padded to the
\* longer length, the first differing pair of integers decides
RefCompare(a, b) ==
    LET sa == Split(a)
        sb == Split(b)
        n == Max(Len(sa), Len(sb))
        pa == [i \in 1..n |-> IF i <= Len(sa) THEN IntOf(sa[i]) ELSE Zero]
        pb == [i \in 1..n |-> IF i <= Len(sb) THEN IntOf(sb[i]) ELSE Zero]
        D == {i \in 1..n : pa[i] # pb[i]}
    IN  IF D = {} THEN 0
        ELSE LET m == CHOOSE i \in D : \A j \in D : i <= j
             IN  IF Greater(pa[m], pb[m]) THEN 1 ELSE -1

\* every segment of a well-formed version is an integer that Number() gives
\* exactly
Exact(v) == \A i \in 1..Len(Split(v)) : ~Greater(IntOf(Split(v)[i]), TwoTo53)

CheckAnswered == resp.kind = "check" /\ resp.status = 200

\* C6: GET /check reports updateAvailable exactly when the stored version is
\* greater than the device's in the reference order, for well-formed
\* versions on both sides.
C6_UpdateIffGreater ==
    (/\ CheckAnswered
     /\ WellFormed(resp.latestVersion)
     /\ WellFormed(resp.currentVersion)) =>
        (resp.updateAvailable <=>
            RefCompare(resp.latestVersion, resp.currentVersion) = 1)

\* C6 on the versions whose segments are at most 2^53
C6_ExactRange ==
    (/\ CheckAnswered
     /\ WellFormed(resp.latestVersion) /\ Exact(resp.latestVersion)
     /\ WellFormed(resp.currentVersion) /\ Exact(resp.currentVersion)) =>
        (resp.updateAvailable <=>
            RefCompare(resp.latestVersion, resp.currentVersion) = 1)

\* C7: GET /check reports no update whenever the device version or the
\* stored version is empty or absent.
C7_FailClosed ==
    (/\ CheckAnswered
     /\ Falsy(resp.latestVersion) \/ Falsy(resp.currentVersion)) =>
        ~resp.updateAvailable

C7_Witness ==
    /\ CheckAnswered
    /\ resp.currentVersion = Absent
    /\ resp.latestVersion = V100
    /\ ~resp.updateAvailable

Compared == cmpOut # <<>>

\* C8: the comparator's result for an empty or absent input differs from
\* the result it gives for two equal well-formed versions.
C8_IndeterminateDistinct ==
    (Compared /\ (Falsy(cmpIn[1]) \/ Falsy(cmpIn[2]))) =>
        cmpOut[1] # compareVersions(V100, V100)

\* C9: over well-formed versions a GREATER one way is a LESS the other way
\* and back, and a version is EQUAL to itself.
C9_Antisymmetric ==
    (Compared /\ WellFormed(cmpIn[1]) /\ WellFormed(cmpIn[2])) =>
        /\ cmpOut[1] = 1 <=> cmpOut[2] = -1
        /\ cmpOut[1] = -1 <=> cmpOut[2] = 1
        /\ cmpIn[1] = cmpIn[2] => cmpOut[1] = 0

C9_Witness ==
    /\ Compared
    /\ cmpIn = <<<<"2", ".", "1", "0">>, <<"2", ".", "2", ".", "0">>>>
    /\ cmpOut = <<1, -1>>

\* C10: over well-formed versions of any arity the comparator's result is
\* the reference order's.
C10_MatchesReference ==
    (Compared /\ WellFormed(cmpIn[1]) /\ WellFormed(cmpIn[2])) =>
        cmpOut[1] = RefCompare(cmpIn[1], cmpIn[2])

\* C10 on the versions whose segments are at most 2^53
C10_ExactRange ==
    (/\ Compared
     /\ WellFormed(cmpIn[1]) /\ Exact(cmpIn[1])
     /\ WellFormed(cmpIn[2]) /\ Exact(cmpIn[2])) =>
        cmpOut[1] = RefCompare(cmpIn[1], cmpIn[2])

\* the uploads of the run that have succeeded
OkUploads == {u \in Uploads : up[u].pc = "done" /\ up[u].status = "ok"}

\* no write of version.json has failed in the run
NoWriteFailed == \A u \in Uploads : up[u].status # "WriteFailed"

\* C11: when exactly one upload of the run has succeeded, with version v and
\* a payload of n units, and no write of the record has failed, GET /version
\* answers 200 with exactly {version: v, updatedAt, size: n}: nothing of the
\* record that was there before is left.
C11_RoundTrip ==
    \A u \in Uploads :
        (resp.kind = "version" /\ OkUploads = {u} /\ NoWriteFailed) =>
            /\ resp.status = 200
            /\ resp.data = [version |-> up[u].version, updatedAt |-> Now,
                            size |-> up[u].len]

C11_Witness ==
    /\ resp.kind = "version"
    /\ resp.status = 200
    /\ up[1].status = "MissingVersion"
    /\ OkUploads = {2}
    /\ resp.data = [version |-> V20, updatedAt |-> Now, size |-> 2]

\* C12: a GET /firmware that has been answered with a body has sent a body
\* whose length is its Content-Length header and whose digest is its x-MD5
\* header, also when uploads ran between the handler and the end of the
\* body.
C12_HeadersMatchBody ==
    \A d \in Downloads :
        (dl[d].pc = "done" /\ dl[d].status = "ok") =>
            /\ ContentLength(d) = Len(dl[d].body)
            /\ XMD5(d) = MD5(dl[d].body)

\* the step is a restart of the process: a request in flight is lost
Restarted ==
    \/ \E u \in Uploads : up[u].pc # "lost" /\ up'[u].pc = "lost"
    \/ \E d \in Downloads : dl[d].pc # "lost" /\ dl'[d].pc = "lost"

C15_UploadOutcome ==
    \A u \in Uploads :
        up[u].pc = "done" =>
            /\ ~up[u].hasFile => up[u].status = "MissingFile"
            /\ (up[u].hasFile /\ up[u].version \in {Absent, Empty})
                    => up[u].status = "MissingVersion"
            /\ (up[u].hasFile /\ up[u].version \notin {Absent, Empty})
                    => up[u].status \in {"ok", "WriteFailed"}

C15_Witness ==
    /\ up[1].pc = "done" /\ up[1].hasFile /\ up[1].version = Empty
    /\ up[1].status = "MissingVersion"
    /\ up[2].pc = "done" /\ up[2].hasFile /\ up[2].version = <<"a">>
    /\ up[2].status = "ok"

\* the records that have been written whole: the first one and the one of
\* every upload that has succeeded
CompleteRecords ==
    {BootRecord} \cup
        {[version |-> up[u].version, updatedAt |-> Now, size |-> up[u].len] :
            u \in OkUploads}

\* C16: a GET /version or GET /check answered 200, whatever uploads are in
\* flight, has read a record that was written whole, the first one or that
\* of a successful upload; and as long as no write of version.json has
\* failed, every GET /version and GET /check is answered 200.
C16_ReadsWholeRecord ==
    /\ (resp.kind = "version" /\ resp.status = 200)
            => resp.data \in CompleteRecords
    /\ (resp.kind = "check" /\ resp.status = 200)
            => \E r \in CompleteRecords : resp.latestVersion = r.version
    /\ (resp.kind \in {"version", "check"} /\ NoWriteFailed)
            => resp.status = 200

C16_Witness ==
    /\ resp.kind = "version" /\ resp.status = 200
    /\ resp.data = BootRecord
    /\ up[1].pc = "writing" /\ up[1].off = up[1].len /\ up[1].version = V20
    /\ up[2].pc = "writing"

\* C17: while the slow download is stalled, an upload request and another
\* download request that have not arrived can start, and every upload and
\* every other download in progress is answered in the end.
C17_SlowClientBlocksNobody ==
    /\ [](dl[SlowDownload].pc = "stalled" =>
            /\ \A u \in Uploads :
                  Arrives(up, u) => ENABLED UploadStart(u, TRUE, MaxLen, V20)
            /\ \A d \in FairDownloads :
                  Arrives(dl, d) => ENABLED DownloadStart(d))
    /\ \A u \in Uploads :
          (dl[SlowDownload].pc = "stalled" /\ up[u].pc \in {"parsed", "writing"})
              ~> (up[u].pc = "done")
    /\ \A d \in FairDownloads \ {SlowDownload} :
          (dl[SlowDownload].pc = "stalled" /\ dl[d].pc = "streaming")
              ~> (dl[d].pc = "done")

C17_Witness ==
    /\ dl[SlowDownload].pc = "stalled"
    /\ dl[SlowDownload].body = <<1>>
    /\ dl[SlowDownload].snap = <<1, 1>>
    /\ up[2].pc = "done" /\ up[2].status = "ok"
    /\ \E d \in FairDownloads \ {SlowDownload} :
          dl[d].pc = "done" /\ dl[d].status = "ok" /\ dl[d].body = Payload(2)

\* a segment with a character that is no digit
Unparseable(seg) == \E i \in 1..Len(seg) : seg[i] \notin Digits

\* the version string with every unparseable segment replaced by "0"
Zeroed(v) ==
    IF Falsy(v) THEN v
    ELSE LET segs == Split(v) IN
         Join([i \in 1..Len(segs) |->
                  IF Unparseable(segs[i]) THEN <<"0">> ELSE segs[i]])

\* C18: the result of compareVersions on two versions is its result on the
\* same two versions with every unparseable segment replaced by "0".
C18_UnparseableIsZero ==
    Compared =>
        cmpOut[1] = compareVersions(Zeroed(cmpIn[1]), Zeroed(cmpIn[2]))

C18_Witness ==
    /\ cmpIn = <<<<"2", ".", "a">>, <<"2", ".", "0", ".", "2">>>>
    /\ cmpOut = <<-1, 1>>

\* C19: a GET /version or GET /check that runs while version.json does not
\* parse is answered 500, and the step changes neither file and no request
\* in flight: nothing is lost, the process goes on serving.
C19_UnreadableRecordIs500 ==
    [][(/\ resp = NoResp
        /\ resp'.kind \in {"version", "check"}
        /\ ~Readable(versionFile)) =>
            /\ resp'.status = 500
            /\ versionFile' = versionFile
            /\ blob' = blob
            /\ up' = up
            /\ dl' = dl]_vars

C19_Witness ==
    /\ resp.kind = "check" /\ resp.status = 500
    /\ versionFile = Torn
    /\ up[1].status = "WriteFailed"
    /\ up[2].pc = "writing"
    /\ dl[1].pc = "streaming"

\* the step is one of a read request: a handler of GET /, GET /version or
\* GET /check has answered, or a download has started, read or ended
ReadStep ==
    /\ up' = up
    /\ \/ resp = NoResp /\ resp' # NoResp
       \/ \E d \in Downloads : dl'[d] # dl[d] /\ dl'[d].pc # "lost"

\* C20: no step of GET /, GET /version, GET /check or GET /firmware changes
\* version.json or firmware.bin, in any interleaving with the uploads and
\* whether the request succeeds or fails.
C20_ReadsChangeNothing ==
    [][ReadStep => (versionFile' = versionFile /\ blob' = blob)]_vars

C20_Witness ==
    /\ resp.kind = "root"
    /\ dl[1].pc = "done" /\ dl[1].status = "ok"
    /\ up[1].status = "WriteFailed" /\ versionFile = Torn
    /\ up[2].pc = "writing" /\ up[2].off = 1
    /\ blob = File(<<2>>)

====
